---------------------------- MODULE Spec2Model ----------------------------
(***************************************************************************)
(* A model of clientservice.py: the batch executor (execute_commands and   *)
(* sanitize_execute_command), the placeholder substitution, the endpoint   *)
(* normalisation and the reporter (send_post).                             *)
(*                                                                         *)
(* Text is modelled as a sequence of atoms.  An atom is either one         *)
(* character that the code or its library treats specially ("%", "/", "?", *)
(* "#", "&", "=") or a run of characters none of which is special ("GRUP", *)
(* "x", "%26").  Every operation on text below works on the atoms exactly  *)
(* as the Python operation works on the characters they stand for.         *)
(***************************************************************************)
EXTENDS Naturals, Integers, Sequences, FiniteSets, TLC

VARIABLES
    \* ---- execute_commands / sanitize_execute_command
    commands,     \* the manifest object, mutated in place
    input,        \* the manifest as it was when execute_commands was called
    gid,          \* the gid argument of execute_commands
    counts,       \* the Counter of execute_commands
    pc,           \* "load", "loop", "wait", "returned", "raised"
    zi,           \* index of the zone the loop is at
    ti,           \* index of the task the loop is at
    procs,        \* the operating-system processes alive
    trace,        \* what happened to each task processed so far, in order
    \* ---- placeholder substitution as a function
    rcmd,         \* a command string
    rgid,         \* a group id, as passed to execute_commands
    rout,         \* the string the code's loop produced
    rpc,          \* "idle", "in", "out"
    \* ---- send_post
    url,          \* the url argument: the server reference of the caller
    group_id,     \* the group_id argument
    legacyJoin,   \* whether the interpreter's urlunsplit is the one before 3.12.4
    ppc,          \* "idle", "in", "built", "open", "done", "raised"
    final_url,    \* the local final_url
    req,          \* the request urlopen is about to send
    sent,         \* the requests that went out on the wire, in order
    resp,         \* the last answer of the network to a request
    returned,     \* the record send_post returned
    hops          \* redirects followed so far

batchVars   == <<commands, input, gid, counts, pc, zi, ti, procs, trace>>
resolveVars == <<rcmd, rgid, rout, rpc>>
postVars    == <<url, group_id, legacyJoin, ppc, final_url, req, sent,
                 resp, returned, hops>>
vars        == <<batchVars, resolveVars, postVars>>

(***************************************************************************)
(* Bounds of the model.                                                    *)
(***************************************************************************)
MaxZones  == 2      \* zones in a manifest
MaxTasks  == 3      \* tasks in a manifest, over all its zones
MaxPieces == 3      \* pieces (an atom or a whole token) in a command string
MaxUrlLen == 4      \* atoms in a server reference, after its scheme prefix
MaxRedirects == 2   \* redirects the server answers in one report

(***************************************************************************)
(* Text.                                                                   *)
(***************************************************************************)
SeqsUpTo(S, n) == UNION {[1..k -> S] : k \in 0..n}

StartsWith(s, p) == Len(s) >= Len(p) /\ SubSeq(s, 1, Len(p)) = p

\* Number of characters of an atom.
AtomLen(a) ==
    CASE a = "GRUP" -> 4
      [] a = "USER" -> 4
      [] a = "HOME" -> 4
      [] a = "SSH_CONFIG" -> 10
      [] a = "grup" -> 4
      [] OTHER -> 1

RECURSIVE CharLen(_)
CharLen(s) == IF s = <<>> THEN 0 ELSE AtomLen(Head(s)) + CharLen(Tail(s))

RECURSIVE Zeros(_)
Zeros(n) == IF n = 0 THEN <<>> ELSE <<"0">> \o Zeros(n - 1)

\* str.zfill(width): zeros on the left, after a leading sign.
ZfillWidth == 2
Zfill(s) ==
    IF CharLen(s) >= ZfillWidth THEN s
    ELSE IF s # <<>> /\ Head(s) \in {"+", "-"}
         THEN <<Head(s)>> \o Zeros(ZfillWidth - CharLen(s)) \o Tail(s)
         ELSE Zeros(ZfillWidth - CharLen(s)) \o s

\* str.replace(old, new): every occurrence, leftmost first, not overlapping.
RECURSIVE Replace(_, _, _)
Replace(s, old, new) ==
    IF Len(s) < Len(old) THEN s
    ELSE IF StartsWith(s, old)
         THEN new \o Replace(SubSeq(s, Len(old) + 1, Len(s)), old, new)
         ELSE <<Head(s)>> \o Replace(Tail(s), old, new)

(***************************************************************************)
(* Placeholder substitution (sanitize_execute_command, lines 84-94).       *)
(***************************************************************************)
\* The placeholders dict, in its insertion order.
Placeholders(g) ==
    << [key |-> <<"%", "GRUP", "%">>,       value |-> <<"grup">> \o g],
       [key |-> <<"%", "USER", "%">>,       value |-> <<"guille">>],
       [key |-> <<"%", "HOME", "%">>,       value |-> <<"/home/guille">>],
       [key |-> <<"%", "SSH_CONFIG", "%">>, value |-> <<"/home/guill/.ssh/config">>] >>

\* for key, value in ...: cmd = cmd.replace(key, value), over the entries
\* of table taken in the given order.
RECURSIVE ApplyInOrder(_, _, _)
ApplyInOrder(cmd, table, order) ==
    IF order = <<>> THEN cmd
    ELSE ApplyInOrder(Replace(cmd, table[Head(order)].key, table[Head(order)].value),
                      table, Tail(order))

\* A resolver whose loop stops one entry short.
ResolveSkipsLast(cmd, g) == ApplyInOrder(cmd, Placeholders(g), <<1, 2, 3>>)

\* The code's loop: the dict's own order.
ResolvePlaceholders(cmd, g) == ApplyInOrder(cmd, Placeholders(g), <<1, 2, 3, 4>>)

(***************************************************************************)
(* The manifest.                                                           *)
(***************************************************************************)
Status == {"OK", "Pending", "Timeout", "Error"}

\* The value of a task that has no "status" key yet.
NoStatus == "<absent>"

\* Python values a task's "command" can hold after json.load.
None      == [t |-> "None", s |-> <<>>]
Str(s)    == [t |-> "str", s |-> s]
Number    == [t |-> "int", s |-> <<>>]       \* a number other than 0

\* Python's truth value of a command: None and "" are false.
Truthy(c) == (c.t = "str" /\ c.s # <<>>) \/ c.t = "int"

\* The commands a loaded manifest holds in this model.
Commands == {None, Str(<<>>), Str(<<"ls", " ", "%", "GRUP", "%">>), Number}

\* The group ids of a run.
Gids == {<<"5">>, <<"1", "2">>}

\* commands.get("zones", [])
Zones(m) == IF m.hasZones THEN m.zones ELSE <<>>

\* zone.get("tasks", [])
Tasks(m, z) == Zones(m)[z].tasks

RECURSIVE CountTasks(_)
CountTasks(zs) == IF zs = <<>> THEN 0 ELSE Len(Head(zs).tasks) + CountTasks(Tail(zs))

TotalTasks(m) == CountTasks(Zones(m))

RECURSIVE CountStatus(_, _)
CountStatus(ts, st) ==
    IF ts = <<>> THEN 0
    ELSE (IF Head(ts).status = st THEN 1 ELSE 0) + CountStatus(Tail(ts), st)

RECURSIVE CountStatusZones(_, _)
CountStatusZones(zs, st) ==
    IF zs = <<>> THEN 0
    ELSE CountStatus(Head(zs).tasks, st) + CountStatusZones(Tail(zs), st)

\* The manifest with every task's status taken away.
StripStatus(m) ==
    [m EXCEPT !.zones =
        [z \in DOMAIN m.zones |->
            [m.zones[z] EXCEPT !.tasks =
                [t \in DOMAIN m.zones[z].tasks |->
                    [m.zones[z].tasks[t] EXCEPT !.status = NoStatus]]]]]

\* The two nested for loops: the first task at or after (z, t), or a zone
\* index past the last zone when there is none.
RECURSIVE Seek(_, _, _)
Seek(zs, z, t) ==
    IF z > Len(zs) THEN <<z, 1>>
    ELSE IF t <= Len(zs[z].tasks) THEN <<z, t>>
         ELSE Seek(zs, z + 1, 1)

AtTask == pc = "loop" /\ zi <= Len(Zones(commands))

CurTask == Tasks(commands, zi)[ti]

(***************************************************************************)
(* json.load of the task file (main, lines 223-224): any manifest within   *)
(* the bounds.                                                             *)
(***************************************************************************)
LoadZone ==
    /\ pc = "load"
    /\ commands.hasZones
    /\ Len(commands.zones) < MaxZones
    /\ commands' = [commands EXCEPT !.zones =
                       Append(@, [name |-> Len(@) + 1, tasks |-> <<>>])]
    /\ UNCHANGED <<input, gid, counts, pc, zi, ti, procs, trace>>

LoadTask(c) ==
    /\ pc = "load"
    /\ commands.hasZones
    /\ commands.zones # <<>>
    /\ TotalTasks(commands) < MaxTasks
    /\ LET z == Len(commands.zones) IN
       commands' = [commands EXCEPT !.zones[z].tasks =
                       Append(@, [name   |-> <<z, Len(@) + 1>>,
                                  command |-> c,
                                  status  |-> NoStatus])]
    /\ UNCHANGED <<input, gid, counts, pc, zi, ti, procs, trace>>

(***************************************************************************)
(* execute_commands, lines 53-55 and the entry into the loops.             *)
(***************************************************************************)
Call ==
    /\ pc = "load"
    /\ input' = commands
    /\ counts' = [st \in Status |-> 0]
    /\ LET p == Seek(Zones(commands), 1, 1) IN
       /\ zi' = p[1]
       /\ ti' = p[2]
       /\ pc' = IF p[1] <= Len(Zones(commands)) THEN "loop" ELSE "returned"
    /\ UNCHANGED <<commands, gid, procs, trace>>

\* task["status"] = result, and nothing but the status.
WriteStatusLosesFields(m, z, t, result) ==
    [m EXCEPT !.zones[z].tasks[t] =
        [name |-> <<>>, command |-> None, status |-> result]]

\* task["status"] = result  (line 60)
WriteStatus(m, z, t, result) ==
    [m EXCEPT !.zones[z].tasks[t].status = result]

\* A tally that leaves out the tasks that had nothing to run.
TallyOnlyRan(c, result) ==
    IF result = "Pending" THEN c ELSE [c EXCEPT ![result] = @ + 1]

\* counts[result] += 1  (line 61)
Tally(c, result) == [c EXCEPT ![result] = @ + 1]

\* Lines 60-61 and the step of the loops to the next task, or the return.
Finish(result, outcome, spawned) ==
    /\ commands' = WriteStatus(commands, zi, ti, result)
    /\ counts' = Tally(counts, result)
    /\ trace' = Append(trace, [z |-> zi, t |-> ti, outcome |-> outcome,
                               spawned |-> spawned])
    /\ LET p == Seek(Zones(commands), zi, ti + 1) IN
       /\ zi' = p[1]
       /\ ti' = p[2]
       /\ pc' = IF p[1] <= Len(Zones(commands)) THEN "loop" ELSE "returned"

(***************************************************************************)
(* sanitize_execute_command.                                               *)
(***************************************************************************)
\* The result for a process that ran to its end with any exit code.
ClassifyAlwaysOK(outcome) ==
    CASE outcome.kind = "completed" -> "OK"
      [] outcome.kind = "TimeoutExpired" -> "Timeout"
      [] OTHER -> "Error"

\* Lines 104-108: the result of subprocess.run's outcome.
Classify(outcome) ==
    CASE outcome.kind = "completed" ->
             (IF outcome.returncode = 0 THEN "OK" ELSE "Pending")
      [] outcome.kind = "TimeoutExpired" -> "Timeout"
      [] OTHER -> "Error"

\* Lines 81-82: nothing to run.
RunNoCommand ==
    /\ AtTask
    /\ ~Truthy(CurTask.command)
    /\ Finish("Pending", [kind |-> "nocmd", returncode |-> 0], FALSE)
    /\ UNCHANGED <<input, gid, procs>>

\* Lines 91-92 outside the try: cmd.replace on a command that is no string
\* raises AttributeError, which nothing catches before main.
RunPrepareFails ==
    /\ AtTask
    /\ Truthy(CurTask.command)
    /\ CurTask.command.t # "str"
    /\ pc' = "raised"
    /\ UNCHANGED <<commands, input, gid, counts, zi, ti, procs, trace>>

\* Lines 84-103: the command is resolved and subprocess.run starts /bin/sh -c
\* on it.  The shell either becomes the command (exec) or stays and forks it,
\* as the shell and the shape of the command line decide.
RunSpawn(forks) ==
    /\ AtTask
    /\ Truthy(CurTask.command)
    /\ CurTask.command.t = "str"
    /\ LET s_cmd == ResolvePlaceholders(CurTask.command.s, Zfill(gid)) IN
       procs' = procs \cup {[z |-> zi, t |-> ti, role |-> "shell", cmd |-> s_cmd]}
                      \cup (IF forks
                            THEN {[z |-> zi, t |-> ti, role |-> "child", cmd |-> s_cmd]}
                            ELSE {})
    /\ pc' = "wait"
    /\ UNCHANGED <<commands, input, gid, counts, zi, ti, trace>>

\* Lines 97-103 and 107-108: the shell cannot be started (OSError).
RunSpawnFails ==
    /\ AtTask
    /\ Truthy(CurTask.command)
    /\ CurTask.command.t = "str"
    /\ Finish(Classify([kind |-> "OSError", returncode |-> 0]),
              [kind |-> "OSError", returncode |-> 0], FALSE)
    /\ UNCHANGED <<input, gid, procs>>

\* Line 104: the shell, and with it the command it waited for, ends within
\* the timeout.
WaitExit(rc) ==
    /\ pc = "wait"
    /\ procs' = {p \in procs : ~(p.z = zi /\ p.t = ti)}
    /\ Finish(Classify([kind |-> "completed", returncode |-> rc]),
              [kind |-> "completed", returncode |-> rc], TRUE)
    /\ UNCHANGED <<input, gid>>

\* Lines 102 and 105-106: the timeout expires.  subprocess.run kills the
\* process it started, which is the shell, waits for it and raises
\* TimeoutExpired; a command the shell forked is not signalled.
WaitTimeout ==
    /\ pc = "wait"
    /\ procs' = {p \in procs : ~(p.z = zi /\ p.t = ti /\ p.role = "shell")}
    /\ Finish(Classify([kind |-> "TimeoutExpired", returncode |-> 0]),
              [kind |-> "TimeoutExpired", returncode |-> 0], TRUE)
    /\ UNCHANGED <<input, gid>>

\* A command that outlived its shell ends by itself.
OrphanExit ==
    /\ pc \in {"loop", "wait", "returned"}
    /\ \E p \in procs :
          /\ ~(pc = "wait" /\ p.z = zi /\ p.t = ti)
          /\ procs' = procs \ {p}
    /\ UNCHANGED <<commands, input, gid, counts, pc, zi, ti, trace>>

ReturnCodes == {0, 1}

(***************************************************************************)
(* The batch executor as a state machine.                                  *)
(***************************************************************************)
ResolveIdle ==
    /\ rcmd = <<>>
    /\ rgid = <<>>
    /\ rout = <<>>
    /\ rpc = "idle"

NoRequest  == [url |-> <<>>, method |-> "", data |-> FALSE]
NoResponse == [kind |-> "none", failure |-> "", status |-> 0, ctype |-> <<>>,
               body |-> <<>>, location |-> FALSE, readOk |-> TRUE]
NoResult   == [requested_url |-> <<>>, method_sent |-> "", status_code |-> 0,
               group_id |-> <<>>,
               response_json |-> [type |-> "none", text |-> <<>>]]

PostIdle ==
    /\ url = <<>>
    /\ group_id = <<>>
    /\ legacyJoin = FALSE
    /\ ppc = "idle"
    /\ final_url = <<>>
    /\ req = NoRequest
    /\ sent = <<>>
    /\ resp = NoResponse
    /\ returned = NoResult
    /\ hops = 0

BatchIdle ==
    /\ commands = [hasZones |-> FALSE, zones |-> <<>>, title |-> "manifest"]
    /\ input = commands
    /\ gid = <<>>
    /\ counts = [st \in Status |-> 0]
    /\ pc = "idle"
    /\ zi = 1
    /\ ti = 1
    /\ procs = {}
    /\ trace = <<>>

Init ==
    /\ \E h \in BOOLEAN :
          commands = [hasZones |-> h, zones |-> <<>>, title |-> "manifest"]
    /\ input = commands
    /\ gid \in Gids
    /\ counts = [st \in Status |-> 0]
    /\ pc = "load"
    /\ zi = 1
    /\ ti = 1
    /\ procs = {}
    /\ trace = <<>>
    /\ ResolveIdle
    /\ PostIdle

Next ==
    \/ LoadZone /\ UNCHANGED <<resolveVars, postVars>>
    \/ (\E c \in Commands : LoadTask(c)) /\ UNCHANGED <<resolveVars, postVars>>
    \/ Call /\ UNCHANGED <<resolveVars, postVars>>
    \/ RunNoCommand /\ UNCHANGED <<resolveVars, postVars>>
    \/ RunPrepareFails /\ UNCHANGED <<resolveVars, postVars>>
    \/ (\E f \in BOOLEAN : RunSpawn(f)) /\ UNCHANGED <<resolveVars, postVars>>
    \/ RunSpawnFails /\ UNCHANGED <<resolveVars, postVars>>
    \/ (\E rc \in ReturnCodes : WaitExit(rc)) /\ UNCHANGED <<resolveVars, postVars>>
    \/ WaitTimeout /\ UNCHANGED <<resolveVars, postVars>>
    \/ OrphanExit /\ UNCHANGED <<resolveVars, postVars>>

Spec == Init /\ [][Next]_vars

(***************************************************************************)
(* Properties of the batch executor, checked under Spec.                   *)
(***************************************************************************)
Called == pc \in {"loop", "wait", "returned", "raised"}

TaskAt(m, z, t) == Tasks(m, z)[t]

Positions(m) == {<<z, t>> \in (1..MaxZones + 1) \X (1..MaxTasks + 1) :
                    z <= Len(Zones(m)) /\ t <= Len(Tasks(m, z))}

Sum(c) == c["OK"] + c["Pending"] + c["Timeout"] + c["Error"]

\* C1: when execute_commands has returned, OK + Pending + Timeout + Error
\* equals the number of tasks over all zones, and each counter equals the
\* number of tasks that carry its status: every task, one with no command
\* included (Pending), incremented exactly one counter exactly once.
C1_CountsSumToTasks ==
    pc = "returned" =>
        /\ Sum(counts) = TotalTasks(input)
        /\ \A st \in Status : counts[st] = CountStatusZones(Zones(commands), st)

C1_Witness ==
    /\ pc = "returned"
    /\ TotalTasks(input) = MaxTasks
    /\ \E p \in Positions(input) : TaskAt(input, p[1], p[2]).command = None
    /\ counts["OK"] >= 1
    /\ counts["Pending"] >= 1
    /\ counts["Timeout"] >= 1

\* C2: execute_commands changes nothing in the manifest but the status of
\* its tasks: same zones, same tasks, same order, every other field as it
\* was; and once it has returned every task carries one of the four
\* statuses.
C2_OnlyStatusChanges ==
    Called =>
        /\ StripStatus(commands) = StripStatus(input)
        /\ pc = "returned" =>
              \A p \in Positions(commands) :
                  TaskAt(commands, p[1], p[2]).status \in Status

C2_Witness ==
    /\ pc = "returned"
    /\ Len(Zones(input)) = MaxZones
    /\ TotalTasks(input) = MaxTasks
    /\ commands # input

\* The status the table of C3 gives to what happened to a task.
TableStatus(outcome) ==
    CASE outcome.kind = "nocmd" -> "Pending"
      [] outcome.kind = "completed" /\ outcome.returncode = 0 -> "OK"
      [] outcome.kind = "completed" /\ outcome.returncode # 0 -> "Pending"
      [] outcome.kind = "TimeoutExpired" -> "Timeout"
      [] outcome.kind = "OSError" -> "Error"

NoCommand(c) == c = None \/ c = Str(<<>>)

\* C3: every task that sanitize_execute_command gave a result has the
\* status of the table: command absent or empty -> Pending, and no process
\* was started for it; exit code 0 within the timeout -> OK; another exit
\* code within the timeout -> Pending; still running at the timeout ->
\* Timeout; the process could not be started -> Error.
C3_ClassificationTable ==
    \A i \in 1..Len(trace) :
        LET e   == trace[i]
            cmd == TaskAt(input, e.z, e.t).command
        IN  /\ TaskAt(commands, e.z, e.t).status = TableStatus(e.outcome)
            /\ NoCommand(cmd) <=> e.outcome.kind = "nocmd"
            /\ NoCommand(cmd) =>
                  /\ ~e.spawned
                  /\ \A p \in procs : ~(p.z = e.z /\ p.t = e.t)

C3_Witness ==
    /\ pc = "returned"
    /\ \E i, j, k \in 1..Len(trace) :
          /\ trace[i].outcome.kind = "nocmd"
          /\ trace[j].outcome.kind = "completed" /\ trace[j].outcome.returncode # 0
          /\ trace[k].outcome.kind = "TimeoutExpired"

\* C4: no failure of a command aborts the batch: whatever happened to the
\* tasks before it, failures while preparing the command included, every
\* task is attempted and gets a status, and execute_commands returns instead
\* of raising.
C4_NoFailureAbortsBatch ==
    /\ pc # "raised"
    /\ pc = "returned" =>
          \A p \in Positions(input) : TaskAt(commands, p[1], p[2]).status \in Status

\* C10: no two tasks execute concurrently: the processes alive belong to
\* the one task being waited for, so that the shell and the command of a
\* task that timed out are gone before the next task starts, and none is
\* alive when execute_commands has returned.
C10_OneTaskAtATime ==
    \A p \in procs : pc = "wait" /\ p.z = zi /\ p.t = ti

(***************************************************************************)
(* The placeholder substitution as a function of the command string and    *)
(* the group id: execute_commands line 54 and sanitize_execute_command     *)
(* lines 84-94.                                                            *)
(***************************************************************************)
\* The atoms of the command strings: the delimiter, the four token names
\* and "x", text that is no token name.
CmdAtoms == {"%", "GRUP", "USER", "HOME", "SSH_CONFIG", "x"}

\* The pieces command strings are put together from: one atom, one of the
\* four tokens, or the unknown token %x%.
CmdPieces ==
    {<<a>> : a \in CmdAtoms}
        \cup {<<"%", n, "%">> : n \in {"GRUP", "USER", "HOME", "SSH_CONFIG", "x"}}

\* The command strings of at most n pieces.
RECURSIVE CmdStrings(_)
CmdStrings(n) ==
    IF n = 0 THEN {<<>>}
    ELSE LET shorter == CmdStrings(n - 1)
         IN  shorter \cup {c \o q : c \in shorter, q \in CmdPieces}

\* The group ids: a number, and a group id that spells a token.
ResolveGids == {<<"5">>, <<"%", "USER", "%">>}

ResolveInit ==
    /\ rcmd \in CmdStrings(MaxPieces)
    /\ rgid \in ResolveGids
    /\ rout = <<>>
    /\ rpc = "in"
    /\ BatchIdle
    /\ PostIdle

Resolve ==
    /\ rpc = "in"
    /\ rout' = ResolvePlaceholders(rcmd, Zfill(rgid))
    /\ rpc' = "out"
    /\ UNCHANGED <<rcmd, rgid>>
    /\ UNCHANGED <<batchVars, postVars>>

SpecResolve == ResolveInit /\ [][Resolve]_vars

\* The orders in which the four entries of the table can be applied.
Orders == {o \in [1..4 -> 1..4] : \A i, j \in 1..4 : i # j => o[i] # o[j]}

KnownKeys == {Placeholders(<<>>)[i].key : i \in 1..4}

UnknownKey == <<"%", "x", "%">>

KeyAt(s, i, k) == i >= 1 /\ i + 2 <= Len(s) /\ SubSeq(s, i, i + 2) = k

KnownAt(s, i) == \E k \in KnownKeys : KeyAt(s, i, k)

Contains(s, k) == \E i \in 1..Len(s) : KeyAt(s, i, k)

\* Two occurrences of different tokens that share a "%".
TokensOverlap(s) ==
    \E i \in 1..Len(s) : \E k1, k2 \in KnownKeys :
        k1 # k2 /\ KeyAt(s, i, k1) /\ KeyAt(s, i + 2, k2)

\* Every order of application gives what the code's order gave.
AnyOrderSame ==
    \A o \in Orders : ApplyInOrder(rcmd, Placeholders(Zfill(rgid)), o) = rout

\* A command with no token comes back unchanged, and an unknown token that
\* shares no "%" with a token stays.
NoTokenUnchanged ==
    /\ (\A i \in 1..Len(rcmd) : ~KnownAt(rcmd, i)) => rout = rcmd
    /\ \A i \in 1..Len(rcmd) :
          (KeyAt(rcmd, i, UnknownKey) /\ ~KnownAt(rcmd, i - 2) /\ ~KnownAt(rcmd, i + 2))
              => Contains(rout, UnknownKey)

\* C8 as stated: for every command string and every group id, replacing
\* the four tokens in any order gives the string the code's order gives; a
\* command with no token is unchanged and an unknown token is left as it is.
C8_OrderIndependent ==
    rpc = "out" => (AnyOrderSame /\ NoTokenUnchanged)

\* C8 amended: the same, for the command strings in which no two
\* occurrences of different tokens share a "%" and the group ids that hold
\* no "%".
C8_OrderIndependentApart ==
    rpc = "out" =>
        /\ (~TokensOverlap(rcmd) /\ \A i \in 1..Len(rgid) : rgid[i] # "%") => AnyOrderSame
        /\ NoTokenUnchanged

C8_Witness ==
    /\ rpc = "out"
    /\ rgid = <<"5">>
    /\ rcmd = <<"%", "GRUP", "%", "x">> \o <<"%", "HOME", "%">>
    /\ ~TokensOverlap(rcmd)
    /\ rout = <<"grup", "0", "5", "x", "/home/guille">>

(***************************************************************************)
(* The endpoint: normalize_url and send_post lines 144-155.                *)
(*                                                                         *)
(* In a URL the atoms "http://" and "https://" stand for those eight or    *)
(* seven characters; the server references of the model hold them at       *)
(* their head only.  "x" is a character that is reserved nowhere, and      *)
(* "%26", "%3D", ... are percent escapes.                                  *)
(***************************************************************************)
SchemeAtoms == {"http://", "https://"}

Range(s) == {s[i] : i \in 1..Len(s)}

\* The index of the first atom of s that is in D, Len(s) + 1 if there is none.
RECURSIVE FirstIn(_, _)
FirstIn(s, D) ==
    IF s = <<>> \/ Head(s) \in D THEN 1 ELSE 1 + FirstIn(Tail(s), D)

\* str.split(sep)
RECURSIVE Split(_, _)
Split(s, sep) ==
    LET i == FirstIn(s, {sep})
    IN  IF i > Len(s) THEN <<s>>
        ELSE <<SubSeq(s, 1, i - 1)>> \o Split(SubSeq(s, i + 1, Len(s)), sep)

\* normalize_url  (lines 111-121)
normalize_url(webserver) ==
    IF ~(webserver # <<>> /\ Head(webserver) \in SchemeAtoms)
    THEN <<"https://">> \o webserver
    ELSE webserver

\* urllib.parse.urlsplit of a URL that starts with http:// or https://
\* (line 146): the netloc ends at the first of / ? #, the fragment starts
\* after the first #, the query after the first ? before it.  An unmatched
\* bracket in the netloc raises ValueError (ok is FALSE).
urlsplit(u) ==
    LET rest     == Tail(u)
        d        == FirstIn(rest, {"/", "?", "#"})
        netloc   == SubSeq(rest, 1, d - 1)
        after    == SubSeq(rest, d, Len(rest))
        h        == FirstIn(after, {"#"})
        noFrag   == SubSeq(after, 1, h - 1)
        q        == FirstIn(noFrag, {"?"})
    IN  [ok       |-> ("[" \in Range(netloc)) = ("]" \in Range(netloc)),
         scheme   |-> IF Head(u) = "https://" THEN "https" ELSE "http",
         netloc   |-> netloc,
         path     |-> SubSeq(noFrag, 1, q - 1),
         query    |-> SubSeq(noFrag, q + 1, Len(noFrag)),
         fragment |-> SubSeq(after, h + 1, Len(after))]

\* urllib.parse.unquote of one atom, and quote_plus of one atom.
UnquoteAtom(a) ==
    CASE a = "%26" -> "&"
      [] a = "%3D" -> "="
      [] a = "%2F" -> "/"
      [] a = "%3F" -> "?"
      [] a = "%23" -> "#"
      [] a = "%5B" -> "["
      [] a = "%2526" -> "%26"
      [] OTHER -> a

QuoteAtom(a) ==
    CASE a = "&" -> "%26"
      [] a = "=" -> "%3D"
      [] a = "/" -> "%2F"
      [] a = "?" -> "%3F"
      [] a = "#" -> "%23"
      [] a = "[" -> "%5B"
      [] a = "%26" -> "%2526"
      [] OTHER -> a

Unquote(s) == [i \in 1..Len(s) |-> UnquoteAtom(s[i])]

QuotePlus(s) == [i \in 1..Len(s) |-> QuoteAtom(s[i])]

\* One name=value piece of a query string.
ParsePair(nv) ==
    LET e == FirstIn(nv, {"="})
    IN  [name  |-> Unquote(SubSeq(nv, 1, e - 1)),
         value |-> Unquote(SubSeq(nv, e + 1, Len(nv)))]

RECURSIVE ParsePieces(_)
ParsePieces(pieces) ==
    IF pieces = <<>> THEN <<>>
    ELSE IF Head(pieces) = <<>> THEN ParsePieces(Tail(pieces))
         ELSE <<ParsePair(Head(pieces))>> \o ParsePieces(Tail(pieces))

\* urllib.parse.parse_qsl(query, keep_blank_values=True)  (line 147)
parse_qsl(query) == ParsePieces(Split(query, "&"))

\* urllib.parse.urlencode(q)  (line 153)
RECURSIVE urlencode(_)
urlencode(q) ==
    IF q = <<>> THEN <<>>
    ELSE LET one == QuotePlus(Head(q).name) \o <<"=">> \o QuotePlus(Head(q).value)
         IN  IF Len(q) = 1 THEN one ELSE one \o <<"&">> \o urlencode(Tail(q))

\* urllib.parse.urlunsplit (line 149).  With an empty netloc and a path that
\* starts with "//", the interpreters before 3.12.4 write scheme + ":" + path,
\* so that the path's own two slashes become the ones after the scheme; the
\* later ones write the "//" of the empty netloc before the path.
urlunsplit(p, legacy) ==
    LET head == <<IF p.scheme = "https" THEN "https://" ELSE "http://">>
        body == IF /\ legacy
                   /\ p.netloc = <<>>
                   /\ StartsWith(p.path, <<"/", "/">>)
                THEN SubSeq(p.path, 3, Len(p.path))
                ELSE p.netloc \o p.path
    IN  head \o body
             \o (IF p.query # <<>> THEN <<"?">> \o p.query ELSE <<>>)
             \o (IF p.fragment # <<>> THEN <<"#">> \o p.fragment ELSE <<>>)

\* Lines 144-155, for a url that urlsplit accepts.
FinalUrl(u, g, legacy) ==
    LET parsed == urlsplit(normalize_url(u))
        q      == Append(parse_qsl(parsed.query),
                         [name |-> <<"group_id">>, value |-> g])
    IN  urlunsplit([parsed EXCEPT !.query = urlencode(q)], legacy)

\* Lines 142-155 of send_post.
BuildUrl ==
    /\ ppc = "in"
    /\ urlsplit(normalize_url(url)).ok
    /\ final_url' = FinalUrl(url, group_id, legacyJoin)
    /\ ppc' = "built"
    /\ UNCHANGED <<url, group_id, legacyJoin, req, sent, resp, returned, hops>>
    /\ UNCHANGED <<batchVars, resolveVars>>

\* The atoms of a server reference after its scheme prefix.
UrlAtoms == {"x", "/", "?", "#", "&", "=", "%26"}

ServerRefs ==
    {h \o r : h \in {<<>>, <<"http://">>, <<"https://">>},
              r \in SeqsUpTo(UrlAtoms, MaxUrlLen)}

UrlGids == {<<"0", "7">>, <<"7", "&", "=">>}

UrlInit ==
    /\ url \in ServerRefs
    /\ group_id \in UrlGids
    /\ legacyJoin \in BOOLEAN
    /\ ppc = "in"
    /\ final_url = <<>>
    /\ req = NoRequest
    /\ sent = <<>>
    /\ resp = NoResponse
    /\ returned = NoResult
    /\ hops = 0
    /\ BatchIdle
    /\ ResolveIdle

SpecUrl == UrlInit /\ [][BuildUrl]_vars

\* C9: the URL that is built has https:// before the server reference
\* exactly when the reference starts with neither http:// nor https://,
\* keeps the reference's host, path and fragment, and has a query string
\* that parses back to the parameters of the reference, same names, values
\* and multiplicity, followed by one group_id parameter with the group id.
C9_UrlKeepsReference ==
    ppc = "built" =>
        LET expected == IF url # <<>> /\ Head(url) \in {"http://", "https://"}
                        THEN url
                        ELSE <<"https://">> \o url
            a == urlsplit(expected)
            b == urlsplit(final_url)
        IN  /\ Head(final_url) = Head(expected)
            /\ b.netloc = a.netloc
            /\ b.path = a.path
            /\ b.fragment = a.fragment
            /\ parse_qsl(b.query) =
                   Append(parse_qsl(a.query),
                          [name |-> <<"group_id">>, value |-> group_id])

(***************************************************************************)
(* send_post: the request, urlopen and the three ways out of it.           *)
(***************************************************************************)
Sentinel == -1

\* Line 146 outside the try: urlsplit raises ValueError, which send_post
\* does not catch.
BuildUrlFails ==
    /\ ppc = "in"
    /\ ~urlsplit(normalize_url(url)).ok
    /\ ppc' = "raised"
    /\ UNCHANGED <<url, group_id, legacyJoin, final_url, req, sent, resp, returned, hops>>
    /\ UNCHANGED <<batchVars, resolveVars>>

\* Lines 157-163: the Request object.
MakeRequest ==
    /\ ppc = "built"
    /\ req' = [url |-> final_url, method |-> "POST", data |-> TRUE]
    /\ ppc' = "open"
    /\ UNCHANGED <<url, group_id, legacyJoin, final_url, sent, resp, returned, hops>>
    /\ UNCHANGED <<batchVars, resolveVars>>

\* What the network can do to a request.
FailureKinds == {"dns", "refused", "tls", "timeout"}

\* The exceptions urlopen raises for a failure: OSError on the way out is
\* wrapped into URLError; a timeout while waiting for the answer is raised
\* as it is.
ExceptionsOf(kind) ==
    IF kind = "timeout"
    THEN {[type |-> "URLError", msg |-> <<"<urlopen error timed out>">>],
          [type |-> "TimeoutError", msg |-> <<"timed out">>]}
    ELSE {[type |-> "URLError", msg |-> <<"<urlopen error ", kind, ">">>]}

SuccessCodes  == {200, 204}
RedirectCodes == {302, 307}
ErrorCodes    == {404, 500}

Ctypes == {<<"application/json">>, <<"application/json", "; charset=utf-8">>,
           <<"text/html">>, <<>>}

\* Response bodies: a JSON document, text that is no JSON, nothing.
Bodies == {<<"{}">>, <<"oops">>, <<>>}

\* json.loads(raw)
JsonLoads(raw) ==
    IF raw = <<"{}">>
    THEN [ok |-> TRUE,  value |-> [type |-> "dict", text |-> <<>>]]
    ELSE [ok |-> FALSE, value |-> [type |-> "none", text |-> <<>>]]

\* Where the server's redirects point.
RedirectTarget == <<"https://", "x", "/", "moved">>

\* urllib's HTTPRedirectHandler.redirect_request: a redirect is followed
\* when it names a Location and the request is a GET, or a POST answered
\* with 301, 302 or 303; the request that follows is a GET without body.
Followed(r, status, location) ==
    /\ status \in RedirectCodes
    /\ location
    /\ \/ r.method = "GET"
       \/ r.method = "POST" /\ status \in {301, 302, 303}

Record(code, body) ==
    [requested_url |-> final_url,
     method_sent   |-> "POST",
     status_code   |-> code,
     group_id      |-> group_id,
     response_json |-> body]

Text(t) == [type |-> "str", text |-> t]

\* An except clause that names URLError only.
CaughtOnlyURLError(e) == e.type = "URLError"

\* Line 189, except Exception: every exception that is no HTTPError, the
\* clause before it.
CaughtByExcept(e) ==
    e.type \in {"URLError", "TimeoutError", "JSONDecodeError", "IncompleteRead"}

\* Lines 189-196.
OnException(e) == Record(Sentinel, Text(<<e.type, ": ">> \o e.msg))

\* Lines 177-188.
OnHTTPError(code, readOk, body) == Record(code, Text(IF readOk THEN body ELSE <<>>))

\* Lines 167-175, which raise what resp.read and json.loads raise.
OnResponse(r) ==
    IF ~r.readOk
    THEN [raised |-> TRUE, exc |-> [type |-> "IncompleteRead", msg |-> <<"0 bytes read">>],
          record |-> NoResult]
    ELSE IF StartsWith(r.ctype, <<"application/json">>)
         THEN IF JsonLoads(r.body).ok
              THEN [raised |-> FALSE, exc |-> [type |-> "", msg |-> <<>>],
                    record |-> Record(r.status, JsonLoads(r.body).value)]
              ELSE [raised |-> TRUE,
                    exc |-> [type |-> "JSONDecodeError", msg |-> <<"Expecting value">>],
                    record |-> NoResult]
         ELSE [raised |-> FALSE, exc |-> [type |-> "", msg |-> <<>>],
               record |-> Record(r.status, Text(r.body))]

\* The exception e leaves the try of line 165.
Raise(e) ==
    IF CaughtByExcept(e)
    THEN returned' = OnException(e) /\ ppc' = "done"
    ELSE returned' = returned /\ ppc' = "raised"

\* Line 166: no answer comes back.
TransportFails(kind, e) ==
    /\ ppc = "open"
    /\ kind = "tls" => Head(req.url) = "https://"
    /\ sent' = IF kind = "timeout" THEN Append(sent, req) ELSE sent
    /\ resp' = [NoResponse EXCEPT !.kind = "failure", !.failure = kind]
    /\ Raise(e)
    /\ UNCHANGED <<url, group_id, legacyJoin, final_url, req, hops>>
    /\ UNCHANGED <<batchVars, resolveVars>>

Answer(status, ctype, body, location, readOk) ==
    [kind |-> "response", failure |-> "", status |-> status, ctype |-> ctype,
     body |-> body, location |-> location, readOk |-> readOk]

\* Lines 166-175: the server answers 2xx.
RespondSuccess(status, ctype, body, readOk) ==
    /\ ppc = "open"
    /\ status \in SuccessCodes
    /\ sent' = Append(sent, req)
    /\ resp' = Answer(status, ctype, body, FALSE, readOk)
    /\ LET out == OnResponse(resp') IN
       IF out.raised
       THEN Raise(out.exc)
       ELSE returned' = out.record /\ ppc' = "done"
    /\ UNCHANGED <<url, group_id, legacyJoin, final_url, req, hops>>
    /\ UNCHANGED <<batchVars, resolveVars>>

\* Line 166: the server answers with a redirect that urlopen follows.
RespondRedirect(status) ==
    /\ ppc = "open"
    /\ hops < MaxRedirects
    /\ Followed(req, status, TRUE)
    /\ sent' = Append(sent, req)
    /\ resp' = Answer(status, <<>>, <<>>, TRUE, TRUE)
    /\ req' = [url |-> RedirectTarget, method |-> "GET", data |-> FALSE]
    /\ hops' = hops + 1
    /\ UNCHANGED <<url, group_id, legacyJoin, ppc, final_url, returned>>
    /\ UNCHANGED <<batchVars, resolveVars>>

\* Lines 166 and 177-188: any other answer is raised as HTTPError.
RespondError(status, ctype, body, location, readOk) ==
    /\ ppc = "open"
    /\ status \in RedirectCodes \cup ErrorCodes
    /\ ~Followed(req, status, location)
    /\ sent' = Append(sent, req)
    /\ resp' = Answer(status, ctype, body, location, readOk)
    /\ returned' = OnHTTPError(status, readOk, body)
    /\ ppc' = "done"
    /\ UNCHANGED <<url, group_id, legacyJoin, final_url, req, hops>>
    /\ UNCHANGED <<batchVars, resolveVars>>

\* The server references and the group id of the reports.
PostUrls == {<<"x", "/", "x">>, <<"http://", "x", "?", "x", "=", "x">>, <<"[", "x">>}

PostGids == {<<"0", "7">>}

PostInit ==
    /\ url \in PostUrls
    /\ group_id \in PostGids
    /\ legacyJoin \in BOOLEAN
    /\ ppc = "in"
    /\ final_url = <<>>
    /\ req = NoRequest
    /\ sent = <<>>
    /\ resp = NoResponse
    /\ returned = NoResult
    /\ hops = 0
    /\ BatchIdle
    /\ ResolveIdle

PostNext ==
    \/ BuildUrl
    \/ BuildUrlFails
    \/ MakeRequest
    \/ \E kind \in FailureKinds : \E e \in ExceptionsOf(kind) : TransportFails(kind, e)
    \/ \E status \in SuccessCodes, ctype \in Ctypes, body \in Bodies, readOk \in BOOLEAN :
          RespondSuccess(status, ctype, body, readOk)
    \/ \E status \in RedirectCodes : RespondRedirect(status)
    \/ \E status \in RedirectCodes \cup ErrorCodes, ctype \in Ctypes, body \in Bodies,
          location \in BOOLEAN, readOk \in BOOLEAN :
          RespondError(status, ctype, body, location, readOk)

SpecPost == PostInit /\ [][PostNext]_vars

(***************************************************************************)
(* Properties of send_post, checked under SpecPost.                        *)
(***************************************************************************)
\* C5: whenever the server answered, with any status code, the record
\* returned holds the server's status code, never the sentinel, and its
\* response_json is the parsed body when the content type is
\* application/json and the raw text otherwise.
C5_ResponseSurfaced ==
    (ppc = "done" /\ resp.kind = "response" /\ resp.readOk) =>
        /\ returned.status_code = resp.status
        /\ returned.status_code # Sentinel
        /\ IF StartsWith(resp.ctype, <<"application/json">>)
           THEN JsonLoads(resp.body).ok => returned.response_json = JsonLoads(resp.body).value
           ELSE returned.response_json = Text(resp.body)

\* C6: for every transport failure (DNS, connection refused, TLS, timeout)
\* send_post returns a record with status_code -1 and a non-empty
\* descriptive response_json, and raises nothing.
C6_TransportFailureSentinel ==
    resp.kind = "failure" =>
        /\ ppc = "done"
        /\ returned.status_code = -1
        /\ returned.response_json.type = "str"
        /\ Len(returned.response_json.text) > 0
        /\ returned.requested_url = final_url

C6_Witness ==
    /\ resp.kind = "failure"
    /\ resp.failure = "timeout"
    /\ ppc = "done"
    /\ returned.response_json.text = <<"TimeoutError", ": ", "timed out">>

\* C7: every request that goes out for the report is a POST, also after a
\* 301/302/303 answer, and no record says method_sent POST for an exchange
\* whose last request went out with another method.
C7_AlwaysPost ==
    /\ \A i \in 1..Len(sent) : sent[i].method = "POST"
    /\ (ppc = "done" /\ sent # <<>> /\ returned.method_sent = "POST")
          => sent[Len(sent)].method = "POST"

====
